---- MODULE Spec2Model ----
(***************************************************************************)
(* Model of translator.py: the bridge between a vending machine controller *)
(* (VMC, cashless slave side, lines "c,...") and a Nayax reader (cashless   *)
(* master side, lines "d,...") over one serial transport.                   *)
(*                                                                         *)
(* Time.  The program compares time.time() with deadlines.  The model      *)
(* keeps every deadline RELATIVE to the current time (deadline - now, in   *)
(* ticks) and every timestamp as an AGE (now - timestamp); the action Tick *)
(* lets one tick pass.  A value more than one tick in the past is kept as  *)
(* -1 (deadlines) or credit_ttl + 1 (ages): the program only ever asks     *)
(* "now > deadline" and "now - ts > ttl".  The float 0.0 that the program  *)
(* uses for "no deadline" / "no timestamp" is None.                        *)
(*                                                                         *)
(* Text.  An amount of money on the wire is <<units, fraction, digits>>    *)
(* ("1.50" is <<1, 50, 2>>, "0.5" is <<0, 5, 1>>); a Decimal is a number   *)
(* of cents.  A product field is <<1, n>> for the decimal text of n and    *)
(* <<0, 0>> for a text int() rejects.                                      *)
(***************************************************************************)
EXTENDS Integers, Sequences, FiniteSets, TLC

VARIABLES
    pc,                      \* where the process is: start, init_vmc, init_off,
                             \* init_init, init_idle, main, arm, wait_credit,
                             \* done (loop left, cleaned up), exited (startup fault),
                             \* crashed (an exception left main)
    stop_flag,               \* stop_flag["stop"]
    comp_credit,             \* --comp-credit: None or Some(cents)
    comp_oneshot,            \* --comp-oneshot
    nayax_timeout,           \* --nayax-timeout, ticks
    vmc_vend_timeout,        \* --vmc-vend-timeout, ticks
    comp_active,
    vmc_has_credit,
    vmc_credit_ts,           \* None (0.0) or Some(age of the last IDLE,<credit>)
    vmc_busy,
    vmc_vend_deadline,       \* None (0.0) or Some(ticks left)
    awaiting_nayax,
    pending,                 \* None or <<price, vmc_prod_raw, nayax_prod>>
    nayax_deadline,          \* ticks left; -1 once passed
    nayax_credit_ready,
    current_vend_price,      \* None or Some(cents)
    current_vend_nayax_prod, \* None or Some(byte)
    current_vend_comp_mode,
    price,                   \* main's local: the price of the vend request in hand
    vmc_prod_raw,            \* main's local: its product field
    wait_until,              \* ticks left of the session-ready wait
    arm_attempt,             \* arm_credit_safe: attempts started, 0 outside it
    sent,                    \* commands written by the last step that was not a Tick
    logged                   \* log_vend_event calls made by that step, in order

vars == <<pc, stop_flag, comp_credit, comp_oneshot, nayax_timeout, vmc_vend_timeout,
          comp_active, vmc_has_credit, vmc_credit_ts, vmc_busy, vmc_vend_deadline,
          awaiting_nayax, pending, nayax_deadline, nayax_credit_ready,
          current_vend_price, current_vend_nayax_prod, current_vend_comp_mode,
          price, vmc_prod_raw, wait_until, arm_attempt, sent, logged>>

cfgvars == <<comp_credit, comp_oneshot, nayax_timeout, vmc_vend_timeout>>

-----------------------------------------------------------------------------
(* Bounds of the model *)

MaxTimeout == 2      \* --nayax-timeout and --vmc-vend-timeout range over 1..MaxTimeout ticks
CreditTtlTicks == 2  \* --credit-ttl, ticks
CreditWaitTicks == 1 \* --credit-wait, ticks

(* Program constants *)

ArmAttempts == 12    \* for _ in range(12)

-----------------------------------------------------------------------------
(* Optional values *)

None == <<>>
Some(x) == <<x>>

(* Money: parse_money and fmt_money *)

Pow10(n) == IF n = 0 THEN 1 ELSE IF n = 1 THEN 10 ELSE 100

parse_money(s) == s[1] * 100 + s[2] * Pow10(2 - s[3])

fmt_money(x) == <<x \div 100, x % 100, 2>>

\* SanitizeProd without the & 0xFF
SanitizeProd_NoMask(raw) == IF raw[1] = 1 THEN raw[2] ELSE 0

(* int(vmc_prod_raw), 0 when it raises, then & 0xFF *)

SanitizeProd(raw) == (IF raw[1] = 1 THEN raw[2] ELSE 0) % 256

max_credit == parse_money(<<1, 0, 2>>)

credit_ttl == CreditTtlTicks

credit_wait == CreditWaitTicks

-----------------------------------------------------------------------------
(* Lines the transport can deliver *)

Line(k, a, b) == [k |-> k, a |-> a, b |-> b]

NoLine == Line("TIMEOUT", <<>>, <<>>)      \* readline() returned b""
BlankLine == Line("BLANK", <<>>, <<>>)     \* only white space

PriceTexts == {<<0, 25, 2>>, <<0, 5, 1>>, <<1, 50, 2>>}
ProdTexts == {<<1, 263>>, <<0, 0>>}
CreditTexts == {<<0, 25, 2>>, <<1, 0, 2>>}
ResultCodes == {1, 0, 3}
ErrCodes == {-1}

SuccessLine == Line("c,VEND,SUCCESS", <<>>, <<>>)
StatusVendSuccessLine == Line("c,STATUS,VEND,SUCCESS", <<>>, <<>>)

VendLines ==
    {Line("c,STATUS,VEND", p, <<1, 263>>) : p \in PriceTexts}
    \cup {Line("c,STATUS,VEND", <<0, 5, 1>>, <<0, 0>>)}

Lines ==
    {NoLine, BlankLine, SuccessLine, StatusVendSuccessLine}
    \cup {Line(k, <<>>, <<>>) : k \in {"d,STATUS,OFF", "d,STATUS,INIT", "d,STATUS,IDLE",
                                       "d,STATUS,CREDIT", "c,STATUS,ENABLED",
                                       "c,STATUS,IDLE"}}
    \cup {Line("c,STATUS,IDLE,", c, <<>>) : c \in CreditTexts}
    \cup VendLines
    \cup {Line("d,STATUS,RESULT", <<r>>, <<>>) : r \in ResultCodes}
    \cup {Line("d,ERR", <<c>>, <<>>) : c \in ErrCodes}
    \cup {Line("c,ERR,START", <<-1>>, <<>>)}

(* The regular expressions, as predicates on a line *)

VMC_ENABLED_RE(t) == t.k = "c,STATUS,ENABLED"
VMC_IDLE_CREDIT_RE(t) == t.k = "c,STATUS,IDLE,"
VMC_IDLE_RE(t) == t.k = "c,STATUS,IDLE"
VMC_VEND_RE(t) == t.k = "c,STATUS,VEND"
VMC_START_ERR_RE(t) == t.k = "c,ERR,START"
N_OFF_RE(t) == t.k = "d,STATUS,OFF"
N_INIT_RE(t) == t.k = "d,STATUS,INIT"
N_IDLE_RE(t) == t.k = "d,STATUS,IDLE"
N_CREDIT_RE(t) == t.k = "d,STATUS,CREDIT"
N_RESULT_RE(t) == t.k = "d,STATUS,RESULT"
N_ERR_RE(t) == t.k = "d,ERR"

-----------------------------------------------------------------------------
(* Commands and audit-log calls *)

C_STOP == <<"C,STOP">>
D_END == <<"D,END">>
D_STOP == <<"D,STOP">>
C_VEND(x) == <<"C,VEND", fmt_money(x)>>
C_START(x) == <<"C,START", fmt_money(x)>>
D_REQ(x, prod) == <<"D,REQ", fmt_money(x), prod>>

\* what api_post can do (api_client.py, lines 105-125): return a response with a
\* success status, return one with an error status, or raise
ApiOutcomes == {"http_ok", "http_error", "raises"}

Event(type, p, prod, reason, comp) ==
    [type |-> type, price |-> p, nayax_prod |-> prod, reason |-> reason,
     comp_mode |-> comp]

Approved(p, prod, comp) == Event("nayax_payment.approved", p, prod, None, comp)
Denied(p, prod, reason) == Event("nayax_payment.denied", p, prod, reason, FALSE)

-----------------------------------------------------------------------------
(* The loop's state as one record, so that a handler is a function of it *)

Cur ==
    [pc |-> "main", comp_active |-> comp_active,
     vmc_has_credit |-> vmc_has_credit, vmc_credit_ts |-> vmc_credit_ts,
     vmc_busy |-> vmc_busy, vmc_vend_deadline |-> vmc_vend_deadline,
     awaiting_nayax |-> awaiting_nayax, pending |-> pending,
     nayax_deadline |-> nayax_deadline, nayax_credit_ready |-> nayax_credit_ready,
     current_vend_price |-> current_vend_price,
     current_vend_nayax_prod |-> current_vend_nayax_prod,
     current_vend_comp_mode |-> current_vend_comp_mode,
     price |-> price, vmc_prod_raw |-> vmc_prod_raw, wait_until |-> wait_until,
     arm_attempt |-> arm_attempt, sent |-> <<>>, logged |-> <<>>,
     api |-> "http_ok", printed |-> <<>>, watch_writes |-> FALSE,
     at_write |-> <<>>]

\* the same, with the outcome that the step's api_post call will have
CurApi(o) == [Cur EXCEPT !.api = o]

\* the values a step leaves in the program's variables (s is computed once)
Store(s) ==
    \E r \in {s} :
        /\ pc' = r.pc
        /\ comp_active' = r.comp_active
        /\ vmc_has_credit' = r.vmc_has_credit
        /\ vmc_credit_ts' = r.vmc_credit_ts
        /\ vmc_busy' = r.vmc_busy
        /\ vmc_vend_deadline' = r.vmc_vend_deadline
        /\ awaiting_nayax' = r.awaiting_nayax
        /\ pending' = r.pending
        /\ nayax_deadline' = r.nayax_deadline
        /\ nayax_credit_ready' = r.nayax_credit_ready
        /\ current_vend_price' = r.current_vend_price
        /\ current_vend_nayax_prod' = r.current_vend_nayax_prod
        /\ current_vend_comp_mode' = r.current_vend_comp_mode
        /\ price' = r.price
        /\ vmc_prod_raw' = r.vmc_prod_raw
        /\ wait_until' = r.wait_until
        /\ arm_attempt' = r.arm_attempt
        /\ sent' = r.sent
        /\ logged' = r.logged

\* lines 31-33; in a step that is watched for failing writes, at_write keeps, for
\* every command, the state in which s.write was called for it: the state the
\* program is in if that write raises
send(s, cmd) ==
    IF s.watch_writes
    THEN [s EXCEPT !.sent = Append(@, cmd),
                   !.at_write = Append(@, [s EXCEPT !.at_write = <<>>])]
    ELSE [s EXCEPT !.sent = Append(@, cmd)]

\* log_vend_event that posts the event again when the first post did not succeed
log_vend_event_Retries(s, ev) ==
    IF s.api = "http_ok"
    THEN [s EXCEPT !.logged = Append(@, ev),
                   !.printed = Append(@, <<"Logged", ev.type, s.api>>)]
    ELSE [s EXCEPT !.logged = Append(Append(@, ev), ev),
                   !.printed = Append(@, <<"Failed to log vend event">>)]

\* lines 70-87: the call is recorded in logged; api_post returns a response
\* (whatever its status) or raises, and in both cases only a message is printed
log_vend_event(s, ev) ==
    IF s.api = "raises"
    THEN [s EXCEPT !.logged = Append(@, ev),
                   !.printed = Append(@, <<"Failed to log vend event">>)]
    ELSE [s EXCEPT !.logged = Append(@, ev),
                   !.printed = Append(@, <<"Logged", ev.type, s.api>>)]

hard_cleanup(s) == send(send(send(s, C_STOP), D_END), D_STOP)

current_arm_amount(s) == IF s.comp_active THEN comp_credit[1] ELSE max_credit

-----------------------------------------------------------------------------
(* The watchdogs and the staleness check at the top of every iteration *)

\* lines 263-264
ExpireCredit(s) ==
    IF s.vmc_has_credit /\ s.vmc_credit_ts # None /\ s.vmc_credit_ts[1] > credit_ttl
    THEN [s EXCEPT !.vmc_has_credit = FALSE]
    ELSE s

ClearVendContext(s) ==
    [s EXCEPT !.current_vend_price = None, !.current_vend_nayax_prod = None,
              !.current_vend_comp_mode = FALSE]

\* lines 267-280
VendWatchdog(s) ==
    IF s.vmc_busy /\ s.vmc_vend_deadline # None /\ s.vmc_vend_deadline[1] < 0
    THEN LET s1 == send(s, C_STOP)
             s2 == ClearVendContext([s1 EXCEPT !.vmc_busy = FALSE,
                                               !.vmc_has_credit = FALSE,
                                               !.vmc_credit_ts = None,
                                               !.vmc_vend_deadline = None])
             s3 == send(s2, D_END)
         IN  [s3 EXCEPT !.awaiting_nayax = FALSE, !.pending = None]
    ELSE s

\* NayaxWatchdog that leaves the request marked as outstanding
NayaxWatchdog_NoClear(s) ==
    IF s.awaiting_nayax /\ s.nayax_deadline < 0
    THEN LET s1 == IF s.current_vend_price # None
                   THEN log_vend_event(s, Denied(s.current_vend_price[1],
                                                 s.current_vend_nayax_prod,
                                                 <<"nayax_timeout">>))
                   ELSE s
             s2 == send(send(s1, C_STOP), D_END)
         IN  ClearVendContext([s2 EXCEPT !.vmc_has_credit = FALSE,
                                         !.vmc_credit_ts = None,
                                         !.vmc_busy = FALSE,
                                         !.vmc_vend_deadline = None])
    ELSE s

\* lines 283-304
NayaxWatchdog(s) ==
    IF s.awaiting_nayax /\ s.nayax_deadline < 0
    THEN LET s1 == IF s.current_vend_price # None
                   THEN log_vend_event(s, Denied(s.current_vend_price[1],
                                                 s.current_vend_nayax_prod,
                                                 <<"nayax_timeout">>))
                   ELSE s
             s2 == send(send(s1, C_STOP), D_END)
         IN  ClearVendContext([s2 EXCEPT !.awaiting_nayax = FALSE,
                                         !.pending = None,
                                         !.vmc_has_credit = FALSE,
                                         !.vmc_credit_ts = None,
                                         !.vmc_busy = FALSE,
                                         !.vmc_vend_deadline = None])
    ELSE s

-----------------------------------------------------------------------------
(* Credit arming *)

\* maybe_arm that arms without looking at the reader's session
maybe_arm_NoSessionGate(s) ==
    IF s.vmc_busy \/ s.vmc_has_credit THEN s
    ELSE [send(s, C_START(current_arm_amount(s))) EXCEPT !.pc = "arm",
                                                         !.arm_attempt = 1]

\* lines 240-250 up to the first C,START of arm_credit_safe (lines 131-133);
\* the rest of arm_credit_safe is the actions ArmRead and ArmWindowEnd
maybe_arm(s) ==
    IF s.vmc_busy \/ s.vmc_has_credit THEN s
    ELSE IF ~s.comp_active /\ ~s.nayax_credit_ready THEN s
    ELSE [send(s, C_START(current_arm_amount(s))) EXCEPT !.pc = "arm",
                                                         !.arm_attempt = 1]

\* ArmNextAttempt that allows one attempt more
ArmNextAttempt_OneMore(s) ==
    IF s.arm_attempt <= ArmAttempts
    THEN [send(s, C_START(current_arm_amount(s))) EXCEPT !.arm_attempt = @ + 1]
    ELSE [s EXCEPT !.vmc_has_credit = FALSE, !.arm_attempt = 0, !.pc = "main"]

\* lines 148-150 and 132-133: the sleep after an attempt, then the next attempt or
\* the failure; maybe_arm's lines 248-250 with ok = False
ArmNextAttempt(s) ==
    IF s.arm_attempt < ArmAttempts
    THEN [send(s, C_START(current_arm_amount(s))) EXCEPT !.arm_attempt = @ + 1]
    ELSE [s EXCEPT !.vmc_has_credit = FALSE, !.arm_attempt = 0, !.pc = "main"]

\* lines 142-144, then maybe_arm's lines 248-250 with ok = True
ArmSucceeded(s) ==
    [s EXCEPT !.vmc_has_credit = TRUE, !.vmc_credit_ts = Some(0),
              !.arm_attempt = 0, !.pc = "main"]

\* lines 136-147: one read inside an attempt's window
ArmLine(s, t) ==
    IF t = NoLine THEN s
    ELSE IF VMC_IDLE_CREDIT_RE(t) THEN ArmSucceeded(s)
    ELSE IF VMC_START_ERR_RE(t) THEN ArmNextAttempt(s)
    ELSE s

-----------------------------------------------------------------------------
(* The line handlers of the main loop *)

\* lines 316-319
NayaxState(s, t) ==
    LET s1 == IF N_IDLE_RE(t) THEN [s EXCEPT !.nayax_credit_ready = FALSE] ELSE s
    IN  IF N_CREDIT_RE(t) THEN [s1 EXCEPT !.nayax_credit_ready = TRUE] ELSE s1

\* VmcCreditState in which ENABLED clears the credit flag during a vend too
VmcCreditState_EnabledAlwaysClears(s, t) ==
    IF VMC_IDLE_CREDIT_RE(t)
    THEN [s EXCEPT !.vmc_has_credit = TRUE, !.vmc_credit_ts = Some(0)]
    ELSE IF VMC_IDLE_RE(t) THEN [s EXCEPT !.vmc_has_credit = FALSE]
    ELSE IF VMC_ENABLED_RE(t) THEN [s EXCEPT !.vmc_has_credit = FALSE]
    ELSE s

\* lines 322-329
VmcCreditState(s, t) ==
    IF VMC_IDLE_CREDIT_RE(t)
    THEN [s EXCEPT !.vmc_has_credit = TRUE, !.vmc_credit_ts = Some(0)]
    ELSE IF VMC_IDLE_RE(t) THEN [s EXCEPT !.vmc_has_credit = FALSE]
    ELSE IF VMC_ENABLED_RE(t) /\ ~s.vmc_busy THEN [s EXCEPT !.vmc_has_credit = FALSE]
    ELSE s

\* lines 332-354
VendComplete(s) ==
    LET s1 == IF s.current_vend_price # None
              THEN log_vend_event(s, Approved(s.current_vend_price[1],
                                              s.current_vend_nayax_prod,
                                              s.current_vend_comp_mode))
              ELSE s
        s2 == ClearVendContext([s1 EXCEPT !.vmc_busy = FALSE,
                                          !.vmc_has_credit = FALSE,
                                          !.vmc_credit_ts = None,
                                          !.vmc_vend_deadline = None])
    IN  IF s2.comp_active /\ comp_oneshot
        THEN [s2 EXCEPT !.comp_active = FALSE]
        ELSE s2

\* The locals price and vmc_prod_raw are dead once the handler has ended
DropLocals(s) == [s EXCEPT !.price = None, !.vmc_prod_raw = None, !.wait_until = 0]

\* lines 364-371
PriceCapReject(s) ==
    LET s1 == send(s, C_STOP)
    IN  DropLocals([s1 EXCEPT !.vmc_busy = FALSE, !.vmc_has_credit = FALSE,
                              !.vmc_credit_ts = None, !.vmc_vend_deadline = None])

\* CompApprove that records the vend as a paid one
CompApprove_NoCompFlag(s) ==
    LET s1 == [s EXCEPT !.current_vend_price = Some(s.price[1]),
                        !.current_vend_nayax_prod = None,
                        !.current_vend_comp_mode = FALSE]
        s2 == send(s1, C_VEND(s.price[1]))
    IN  DropLocals([s2 EXCEPT !.vmc_vend_deadline = Some(vmc_vend_timeout)])

\* lines 374-382
CompApprove(s) ==
    LET s1 == [s EXCEPT !.current_vend_price = Some(s.price[1]),
                        !.current_vend_nayax_prod = None,
                        !.current_vend_comp_mode = TRUE]
        s2 == send(s1, C_VEND(s.price[1]))
    IN  DropLocals([s2 EXCEPT !.vmc_vend_deadline = Some(vmc_vend_timeout)])

\* lines 399-413
NoSessionDeny(s) ==
    LET s1 == log_vend_event(s, Denied(s.price[1], None, <<"no_nayax_credit_session">>))
        s2 == send(s1, C_STOP)
    IN  DropLocals([s2 EXCEPT !.vmc_busy = FALSE, !.vmc_has_credit = FALSE,
                              !.vmc_credit_ts = None, !.vmc_vend_deadline = None,
                              !.pc = "main"])

\* Authorize that puts the product number into the request as the VMC gave it
Authorize_RawProdInRequest(s) ==
    LET nayax_prod == SanitizeProd(s.vmc_prod_raw)
        s1 == [s EXCEPT !.pending = <<s.price[1], s.vmc_prod_raw, nayax_prod>>,
                        !.current_vend_price = Some(s.price[1]),
                        !.current_vend_nayax_prod = Some(nayax_prod),
                        !.current_vend_comp_mode = FALSE]
        s2 == send(s1, D_REQ(s.price[1], SanitizeProd_NoMask(s.vmc_prod_raw)))
    IN  DropLocals([s2 EXCEPT !.awaiting_nayax = TRUE,
                              !.nayax_deadline = nayax_timeout,
                              !.vmc_vend_deadline = Some(vmc_vend_timeout),
                              !.pc = "main"])

\* lines 415-434
Authorize(s) ==
    LET nayax_prod == SanitizeProd(s.vmc_prod_raw)
        s1 == [s EXCEPT !.pending = <<s.price[1], s.vmc_prod_raw, nayax_prod>>,
                        !.current_vend_price = Some(s.price[1]),
                        !.current_vend_nayax_prod = Some(nayax_prod),
                        !.current_vend_comp_mode = FALSE]
        s2 == send(s1, D_REQ(s.price[1], nayax_prod))
    IN  DropLocals([s2 EXCEPT !.awaiting_nayax = TRUE,
                              !.nayax_deadline = nayax_timeout,
                              !.vmc_vend_deadline = Some(vmc_vend_timeout),
                              !.pc = "main"])

\* AfterWait without the session-ready check
AfterWait_NoSessionCheck(s) == Authorize(s)

\* lines 399-434: what follows the session-ready wait
AfterWait(s) == IF ~s.nayax_credit_ready THEN NoSessionDeny(s) ELSE Authorize(s)

\* VendRequest that approves a request itself when the session is ready
VendRequest_ApprovesUnpaid(s, t) ==
    LET s1 == [s EXCEPT !.vmc_busy = TRUE, !.price = Some(parse_money(t.a)),
                        !.vmc_prod_raw = t.b]
    IN  IF s1.price[1] > current_arm_amount(s1) THEN PriceCapReject(s1)
        ELSE IF s1.comp_active THEN CompApprove(s1)
        ELSE IF ~s1.nayax_credit_ready
             THEN [s1 EXCEPT !.pc = "wait_credit", !.wait_until = credit_wait]
        ELSE CompApprove(s1)

\* lines 357-397: a vend request, up to the first read of the session-ready wait
VendRequest(s, t) ==
    LET s1 == [s EXCEPT !.vmc_busy = TRUE, !.price = Some(parse_money(t.a)),
                        !.vmc_prod_raw = t.b]
    IN  IF s1.price[1] > current_arm_amount(s1) THEN PriceCapReject(s1)
        ELSE IF s1.comp_active THEN CompApprove(s1)
        ELSE IF ~s1.nayax_credit_ready
             THEN [s1 EXCEPT !.pc = "wait_credit", !.wait_until = credit_wait]
        ELSE AfterWait(s1)

\* lines 388-397: one read of the session-ready wait
WaitLine(s, t) ==
    IF t = NoLine THEN s
    ELSE IF N_CREDIT_RE(t) THEN AfterWait([s EXCEPT !.nayax_credit_ready = TRUE])
    ELSE IF N_IDLE_RE(t) THEN [s EXCEPT !.nayax_credit_ready = FALSE]
    ELSE s

\* NayaxErr that does not end the session
NayaxErr_NoEndSession(s, t) ==
    LET code == t.a[1]
        s1 == log_vend_event(s, Denied(s.pending[1], Some(s.pending[3]),
                                       <<"nayax_err", code>>))
        s2 == send(s1, C_STOP)
    IN  ClearVendContext([s2 EXCEPT !.awaiting_nayax = FALSE, !.pending = None,
                                    !.vmc_has_credit = FALSE, !.vmc_credit_ts = None,
                                    !.vmc_busy = FALSE, !.vmc_vend_deadline = None])

\* lines 437-461
NayaxErr(s, t) ==
    LET code == t.a[1]
        s1 == log_vend_event(s, Denied(s.pending[1], Some(s.pending[3]),
                                       <<"nayax_err", code>>))
        s2 == send(send(s1, C_STOP), D_END)
    IN  ClearVendContext([s2 EXCEPT !.awaiting_nayax = FALSE, !.pending = None,
                                    !.vmc_has_credit = FALSE, !.vmc_credit_ts = None,
                                    !.vmc_busy = FALSE, !.vmc_vend_deadline = None])

\* NayaxResult that logs the approval as soon as the reader approves
NayaxResult_LogsApproval(s, t) ==
    LET res == t.a[1]
        s1 == IF res = 1
              THEN LET a1 == [s EXCEPT !.current_vend_price = Some(s.pending[1]),
                                       !.current_vend_nayax_prod = Some(s.pending[3]),
                                       !.current_vend_comp_mode = FALSE]
                       a2 == send(a1, C_VEND(s.pending[1]))
                       a3 == log_vend_event(a2, Approved(s.pending[1],
                                                         Some(s.pending[3]), FALSE))
                   IN  [a3 EXCEPT !.vmc_vend_deadline = Some(vmc_vend_timeout)]
              ELSE LET d1 == log_vend_event(s, Denied(s.pending[1], Some(s.pending[3]),
                                                      <<"nayax_denied_res", res>>))
                       d2 == ClearVendContext(send(d1, C_STOP))
                   IN  [d2 EXCEPT !.vmc_busy = FALSE, !.vmc_vend_deadline = None]
        s2 == send(s1, D_END)
    IN  [s2 EXCEPT !.awaiting_nayax = FALSE, !.pending = None,
                   !.vmc_has_credit = FALSE, !.vmc_credit_ts = None]

\* lines 464-499
NayaxResult(s, t) ==
    LET res == t.a[1]
        s1 == IF res = 1
              THEN LET a1 == [s EXCEPT !.current_vend_price = Some(s.pending[1]),
                                       !.current_vend_nayax_prod = Some(s.pending[3]),
                                       !.current_vend_comp_mode = FALSE]
                       a2 == send(a1, C_VEND(s.pending[1]))
                   IN  [a2 EXCEPT !.vmc_vend_deadline = Some(vmc_vend_timeout)]
              ELSE LET d1 == log_vend_event(s, Denied(s.pending[1], Some(s.pending[3]),
                                                      <<"nayax_denied_res", res>>))
                       d2 == ClearVendContext(send(d1, C_STOP))
                   IN  [d2 EXCEPT !.vmc_busy = FALSE, !.vmc_vend_deadline = None]
        s2 == send(s1, D_END)
    IN  [s2 EXCEPT !.awaiting_nayax = FALSE, !.pending = None,
                   !.vmc_has_credit = FALSE, !.vmc_credit_ts = None]

\* lines 310-501: a non-empty line
HandleLine(s, t) ==
    LET s1 == VmcCreditState(NayaxState(s, t), t)
    IN  IF t = SuccessLine THEN VendComplete(s1)
        ELSE IF VMC_VEND_RE(t) THEN VendRequest(s1, t)
        ELSE IF N_ERR_RE(t) /\ s1.awaiting_nayax /\ s1.pending # None
             THEN NayaxErr(s1, t)
        ELSE IF N_RESULT_RE(t) /\ s1.awaiting_nayax /\ s1.pending # None
             THEN NayaxResult(s1, t)
        ELSE maybe_arm(s1)

\* lines 257-501: one iteration of the main loop, up to its first inner read
MainIteration(s, t) ==
    LET s1 == NayaxWatchdog(VendWatchdog(ExpireCredit(s)))
    IN  IF t = NoLine THEN maybe_arm(s1)
        ELSE IF t = BlankLine THEN s1
        ELSE HandleLine(s1, t)

-----------------------------------------------------------------------------
(* Startup: hard_cleanup, init_vmc_slave, init_nayax_master *)

InitStages == {"init_vmc", "init_off", "init_init", "init_idle"}

\* the status each wait_for waits for
StageMatches(stage, t) ==
    \/ stage = "init_vmc" /\ VMC_ENABLED_RE(t)
    \/ stage = "init_off" /\ N_OFF_RE(t)
    \/ stage = "init_init" /\ N_INIT_RE(t)
    \/ stage = "init_idle" /\ N_IDLE_RE(t)

\* the stage after a match, and what is written on the way to its wait_for
StageNext(stage) ==
    IF stage = "init_vmc" THEN "init_off"
    ELSE IF stage = "init_off" THEN "init_init"
    ELSE IF stage = "init_init" THEN "init_idle"
    ELSE "main"

StageSends(stage) ==
    IF stage = "init_vmc" THEN <<D_STOP, <<"D,0">>>>
    ELSE IF stage = "init_off" THEN <<<<"D,2">>>>
    ELSE IF stage = "init_init" THEN <<<<"D,READER,1">>>>
    ELSE <<>>

-----------------------------------------------------------------------------
(* Time *)

TickDeadline(d) == IF d = None THEN None ELSE Some(IF d[1] < 0 THEN -1 ELSE d[1] - 1)

TickAge(a) == IF a = None THEN None
              ELSE Some(IF a[1] > credit_ttl THEN credit_ttl + 1 ELSE a[1] + 1)

Running == {"main", "arm", "wait_credit"}

-----------------------------------------------------------------------------
(* The state after the transport is opened and the handlers are registered *)

Init ==
    /\ pc = "start"
    /\ stop_flag = FALSE
    /\ comp_credit \in {None, Some(parse_money(<<0, 25, 2>>))}
    /\ comp_oneshot \in (IF comp_credit = None THEN {FALSE} ELSE BOOLEAN)
    /\ nayax_timeout \in 1..MaxTimeout
    /\ vmc_vend_timeout \in 1..MaxTimeout
    /\ comp_active = (comp_credit # None)
    /\ vmc_has_credit = FALSE
    /\ vmc_credit_ts = None
    /\ vmc_busy = FALSE
    /\ vmc_vend_deadline = None
    /\ awaiting_nayax = FALSE
    /\ pending = None
    /\ nayax_deadline = -1
    /\ nayax_credit_ready = FALSE
    /\ current_vend_price = None
    /\ current_vend_nayax_prod = None
    /\ current_vend_comp_mode = FALSE
    /\ price = None
    /\ vmc_prod_raw = None
    /\ wait_until = 0
    /\ arm_attempt = 0
    /\ sent = <<>>
    /\ logged = <<>>

loopvars == <<comp_active, vmc_has_credit, vmc_credit_ts, vmc_busy, vmc_vend_deadline,
              awaiting_nayax, pending, nayax_deadline, nayax_credit_ready,
              current_vend_price, current_vend_nayax_prod, current_vend_comp_mode,
              price, vmc_prod_raw, wait_until, arm_attempt>>

\* lines 215 and 91-96: hard_cleanup, then init_vmc_slave up to its wait_for
Startup ==
    /\ pc = "start"
    /\ pc' = "init_vmc"
    /\ sent' = <<C_STOP, D_END, D_STOP, <<"X,0">>, <<"C,0">>, <<"C,1">>>>
    /\ logged' = <<>>
    /\ UNCHANGED <<stop_flag, cfgvars, loopvars>>

\* lines 57-66 inside lines 98, 109, 115, 121: one read of a wait_for
WaitForRead(t) ==
    /\ pc \in InitStages
    /\ IF t # NoLine /\ StageMatches(pc, t)
       THEN pc' = StageNext(pc) /\ sent' = StageSends(pc)
       ELSE pc' = pc /\ sent' = <<>>
    /\ logged' = <<>>
    /\ UNCHANGED <<stop_flag, cfgvars, loopvars>>

\* A wait_for that times out and lets the startup go on into the loop
WaitForTimeout_EntersLoop ==
    /\ pc \in InitStages
    /\ pc' = "main"
    /\ sent' = <<>>
    /\ logged' = <<>>
    /\ UNCHANGED <<stop_flag, cfgvars, loopvars>>

\* lines 67, 99-101, 110-112, 116-118, 122-124, 217-220: the wait_for timed out,
\* main returns.  The return leaves the with block of line 192, which closes the
\* port; the hard_cleanup registered with atexit (line 212) runs only afterwards, at
\* interpreter exit, its first write raises on the closed port and the exception is
\* swallowed (lines 204-205): nothing is written.
WaitForTimeout ==
    /\ pc \in InitStages
    /\ pc' = "exited"
    /\ sent' = <<>>
    /\ logged' = <<>>
    /\ UNCHANGED <<stop_flag, cfgvars, loopvars>>

\* lines 256-501: one iteration of the main loop
MainLoop(t) ==
    /\ pc = "main"
    /\ ~stop_flag
    /\ LET r == MainIteration(Cur, t)
       IN  IF r.logged = <<>>
           THEN Store(r)
           ELSE \E o \in ApiOutcomes : Store(MainIteration(CurApi(o), t))
    /\ UNCHANGED <<stop_flag, cfgvars>>

\* ExitLoop that leaves the loop without the cleanup
ExitLoop_NoCleanup ==
    /\ pc = "main"
    /\ stop_flag
    /\ pc' = "done"
    /\ sent' = <<>>
    /\ logged' = <<>>
    /\ UNCHANGED <<stop_flag, cfgvars, loopvars>>

\* lines 256, 503-505: the loop ends on the stop flag
ExitLoop ==
    /\ pc = "main"
    /\ stop_flag
    /\ pc' = "done"
    /\ sent' = <<C_STOP, D_END, D_STOP>>
    /\ logged' = <<>>
    /\ UNCHANGED <<stop_flag, cfgvars, loopvars>>

\* lines 135-147: one read of arm_credit_safe
ArmRead(t) ==
    /\ pc = "arm"
    /\ Store(ArmLine([Cur EXCEPT !.pc = "arm"], t))
    /\ UNCHANGED <<stop_flag, cfgvars>>

\* line 135: the attempt's 0.9 s are over
ArmWindowEnd ==
    /\ pc = "arm"
    /\ Store(ArmNextAttempt([Cur EXCEPT !.pc = "arm"]))
    /\ UNCHANGED <<stop_flag, cfgvars>>

\* lines 387-397: one read of the session-ready wait
WaitCreditRead(t) ==
    /\ pc = "wait_credit"
    /\ wait_until > 0
    /\ LET r == WaitLine([Cur EXCEPT !.pc = "wait_credit"], t)
       IN  IF r.logged = <<>>
           THEN Store(r)
           ELSE \E o \in ApiOutcomes :
                    Store(WaitLine([CurApi(o) EXCEPT !.pc = "wait_credit"], t))
    /\ UNCHANGED <<stop_flag, cfgvars>>

\* line 387: the wait is over
WaitCreditExpire ==
    /\ pc = "wait_credit"
    /\ wait_until <= 0
    /\ LET r == AfterWait([Cur EXCEPT !.pc = "wait_credit"])
       IN  IF r.logged = <<>>
           THEN Store(r)
           ELSE \E o \in ApiOutcomes :
                    Store(AfterWait([CurApi(o) EXCEPT !.pc = "wait_credit"]))
    /\ UNCHANGED <<stop_flag, cfgvars>>

\* time.time() advances by one tick
Tick ==
    /\ pc \in Running
    /\ vmc_credit_ts' = TickAge(vmc_credit_ts)
    /\ vmc_vend_deadline' = TickDeadline(vmc_vend_deadline)
    /\ nayax_deadline' = (IF nayax_deadline < 0 THEN -1 ELSE nayax_deadline - 1)
    /\ wait_until' = (IF wait_until > 0 THEN wait_until - 1 ELSE 0)
    /\ UNCHANGED <<pc, stop_flag, cfgvars, comp_active, vmc_has_credit, vmc_busy,
                   awaiting_nayax, pending, nayax_credit_ready, current_vend_price,
                   current_vend_nayax_prod, current_vend_comp_mode, price,
                   vmc_prod_raw, arm_attempt, sent, logged>>

\* lines 207-211: SIGINT or SIGTERM
handle_sig ==
    /\ pc \notin {"done", "exited"}
    /\ ~stop_flag
    /\ stop_flag' = TRUE
    /\ UNCHANGED <<pc, cfgvars, loopvars, sent, logged>>

Next ==
    \/ Startup
    \/ \E t \in Lines : WaitForRead(t)
    \/ WaitForTimeout
    \/ \E t \in Lines : MainLoop(t)
    \/ ExitLoop
    \/ \E t \in Lines : ArmRead(t)
    \/ ArmWindowEnd
    \/ \E t \in Lines : WaitCreditRead(t)
    \/ WaitCreditExpire
    \/ Tick
    \/ handle_sig

Spec == Init /\ [][Next]_vars

\* the steps the program takes when every read returns no line
LoopStep ==
    \/ MainLoop(NoLine)
    \/ ArmRead(NoLine)
    \/ ArmWindowEnd
    \/ WaitCreditRead(NoLine)
    \/ WaitCreditExpire

\* The transport is silent for as long as an authorization is outstanding.
SilentNext ==
    \/ ~awaiting_nayax /\ Next
    \/ awaiting_nayax /\ (LoopStep \/ Tick \/ handle_sig \/ ExitLoop)

\* Time advances, and the loop keeps iterating: every readline returns after the
\* port's read timeout (line 192), and the sub-loops are bounded (lines 132, 387).
SilentSpec ==
    /\ Init /\ [][SilentNext]_vars
    /\ WF_vars(Tick)
    /\ WF_vars(LoopStep)

\* Inside arm_credit_safe every attempt's window ends: it is 0.9 s of wall-clock
\* time and each readline returns within the port's 0.3 s timeout (lines 134-137).
ArmSpec ==
    /\ Init /\ [][Next]_vars
    /\ WF_vars(ArmWindowEnd)

\* The loop's condition is evaluated again whenever an iteration has ended (line
\* 256), the clock advances, and both sub-loops are bounded by the clock: the window
\* of an arming attempt (line 135) and the session-ready wait (line 387).
StopSpec ==
    /\ Init /\ [][Next]_vars
    /\ WF_vars(Tick)
    /\ WF_vars(ExitLoop)
    /\ WF_vars(ArmWindowEnd)
    /\ WF_vars(WaitCreditExpire)

\* A write that fails.  The port is opened with write_timeout = 0.3 (line 192), so
\* s.write can raise; send (lines 31-33) has no handler and neither has any caller
\* inside the loop, so the exception leaves main: the state is the one in which the
\* write was called, the commands before it are written, the with block closes the
\* port and the atexit cleanup can write nothing.
Crash(r, i) == Store([r.at_write[i] EXCEPT !.pc = "crashed"])

\* the current state, in a step watched for failing writes
CurWatched == [Cur EXCEPT !.watch_writes = TRUE]

\* lines 256-501: an iteration of the main loop in which a write raises
MainLoopWriteFault(t) ==
    /\ pc = "main"
    /\ ~stop_flag
    /\ LET r == MainIteration(CurWatched, t)
       IN  \E i \in DOMAIN r.at_write : Crash(r, i)
    /\ UNCHANGED <<stop_flag, cfgvars>>

\* line 133: the C,START of a further attempt of arm_credit_safe raises
ArmWriteFault ==
    /\ pc = "arm"
    /\ LET r == ArmNextAttempt([CurWatched EXCEPT !.pc = "arm"])
       IN  \E i \in DOMAIN r.at_write : Crash(r, i)
    /\ UNCHANGED <<stop_flag, cfgvars>>

\* lines 408, 429: the write that follows the session-ready wait raises
WaitWriteFault ==
    /\ pc = "wait_credit"
    /\ LET r == AfterWait([CurWatched EXCEPT !.pc = "wait_credit"])
       IN  \E i \in DOMAIN r.at_write : Crash(r, i)
    /\ UNCHANGED <<stop_flag, cfgvars>>

WriteFault ==
    \/ \E t \in Lines : MainLoopWriteFault(t)
    \/ ArmWriteFault
    \/ WaitWriteFault

FaultNext == Next \/ WriteFault

\* The program on a transport whose writes can fail inside the loop.
FaultSpec == Init /\ [][FaultNext]_vars

-----------------------------------------------------------------------------
(* Vocabulary of the properties.  A property of a handler is stated on every *)
(* reachable state in which the handler can run: it says what the handler    *)
(* does there with each line the transport can deliver.                      *)

HasCmd(seq, name) == \E i \in DOMAIN seq : seq[i][1] = name

CountCmd(seq, name) == Cardinality({i \in DOMAIN seq : seq[i][1] = name})

Drop(seq, n) == SubSeq(seq, n + 1, Len(seq))

Fresh(s) == [s EXCEPT !.sent = <<>>, !.logged = <<>>, !.printed = <<>>,
                       !.at_write = <<>>]

\* the main loop is about to run an iteration
InMain == pc = "main" /\ ~stop_flag

\* the state after the watchdogs of the iteration that starts now
Top == NayaxWatchdog(VendWatchdog(ExpireCredit(Cur)))

\* the state after the iteration that starts now and reads line t
Step(t) == MainIteration(Cur, t)

\* what that iteration writes and logs after its watchdogs
HandlerSent(t) == Drop(Step(t).sent, Len(Top.sent))
HandlerLogged(t) == Drop(Step(t).logged, Len(Top.logged))

\* the session-ready wait in its current state
AtWait == [Cur EXCEPT !.pc = "wait_credit"]

VendWatchdogDue == vmc_busy /\ vmc_vend_deadline # None /\ vmc_vend_deadline[1] < 0
NayaxWatchdogDue == awaiting_nayax /\ nayax_deadline < 0

PriceOf(t) == parse_money(t.a)

IsDenial(e, reason) == e.type = "nayax_payment.denied" /\ e.reason = reason

-----------------------------------------------------------------------------
\* C1: a vend request whose price is above the armed cap (the comp amount in comp
\* mode, else the configured maximum) is answered with C,STOP, causes no D,REQ, and
\* is logged as exactly one denial with the reason "price exceeds armed credit".
C1_PriceAboveCapDeniedAndLogged ==
    [][\A t \in VendLines :
        (PriceOf(t) > current_arm_amount(Top) /\ MainLoop(t)) =>
            /\ HasCmd(Drop(sent', Len(Top.sent)), "C,STOP")
            /\ ~HasCmd(sent', "D,REQ")
            /\ Len(Drop(logged', Len(Top.logged))) = 1
            /\ IsDenial(logged'[Len(logged')], <<"price_exceeds_armed_credit">>)]_vars

\* C2: a vend request that arrives while an earlier vend is pending (its
\* authorization outstanding, or its approve sent and no success seen yet) leaves
\* the record of the earlier vend as it is.
C2_PendingVendNotOverwritten ==
    [][/\ \A t \in VendLines :
            MainLoop(t) =>
                /\ (Top.awaiting_nayax /\ Top.pending # None) => pending' = Top.pending
                /\ (Top.vmc_busy /\ Top.current_vend_price # None) =>
                        /\ current_vend_price' = Top.current_vend_price
                        /\ current_vend_nayax_prod' = Top.current_vend_nayax_prod
       /\ \A t \in Lines :
            (WaitCreditRead(t) /\ awaiting_nayax /\ pending # None) =>
                pending' = pending]_vars

\* C3: while an authorization request is outstanding (no RESULT, ERR or timeout has
\* ended it) no line makes the bridge send another D,REQ.
C3_OneRequestOutstanding ==
    [][/\ \A t \in Lines :
            (Top.awaiting_nayax /\ MainLoop(t)) =>
                ~HasCmd(Drop(sent', Len(Top.sent)), "D,REQ")
       /\ \A t \in Lines :
            (awaiting_nayax /\ WaitCreditRead(t)) => ~HasCmd(sent', "D,REQ")]_vars

\* One silent iteration of the main loop: if it finds the deadline of an
\* outstanding authorization passed it writes C,STOP once and D,END once and leaves
\* no pending vend (nothing awaited, nothing pending, not busy, no deadline); if it
\* finds nothing outstanding and the VMC not busy it writes neither; if it finds the
\* deadline still ahead it writes neither and keeps the request.
SilentIterationCancelsOnce ==
    InMain =>
        LET r == Step(NoLine)
        IN  /\ (awaiting_nayax /\ (nayax_deadline < 0 \/ VendWatchdogDue)) =>
                    /\ CountCmd(r.sent, "C,STOP") = 1
                    /\ CountCmd(r.sent, "D,END") = 1
                    /\ ~r.awaiting_nayax /\ r.pending = None
                    /\ ~r.vmc_busy /\ r.vmc_vend_deadline = None
            /\ (~awaiting_nayax /\ ~vmc_busy) =>
                    /\ ~HasCmd(r.sent, "C,STOP") /\ ~HasCmd(r.sent, "D,END")
                    /\ ~r.awaiting_nayax /\ ~r.vmc_busy
            /\ (awaiting_nayax /\ nayax_deadline >= 0 /\ ~VendWatchdogDue) =>
                    /\ ~HasCmd(r.sent, "C,STOP") /\ ~HasCmd(r.sent, "D,END")
                    /\ r.awaiting_nayax /\ r.pending = pending

\* C4: on a transport that stays silent while an authorization is outstanding, the
\* main loop eventually (unless it is stopped) writes C,STOP once and D,END once and
\* leaves nothing awaited and nothing pending; a silent iteration that finds nothing
\* outstanding writes neither again, whichever watchdog did the cancel.
C4_AuthTimeoutCancelsOnce ==
    /\ []SilentIterationCancelsOnce
    /\ awaiting_nayax ~>
            \/ stop_flag
            \/ /\ ~awaiting_nayax /\ pending = None
               /\ CountCmd(sent, "C,STOP") = 1
               /\ CountCmd(sent, "D,END") = 1

C4_Witness ==
    /\ pc \in {"main", "arm"} /\ ~awaiting_nayax /\ pending = None /\ ~vmc_busy
    /\ CountCmd(sent, "C,STOP") = 1 /\ CountCmd(sent, "D,END") = 1
    /\ Len(logged) = 1 /\ IsDenial(logged[1], <<"nayax_timeout">>)

\* C5: when either deadline of a pending vend (authorization wait, vend completion)
\* has passed, the iteration writes C,STOP and D,END, logs a denial with the reason
\* timeout, and clears the pending vend.
C5_BothWatchdogsLogTimeout ==
    [][((VendWatchdogDue \/ NayaxWatchdogDue) /\ MainLoop(NoLine)) =>
            /\ HasCmd(sent', "C,STOP") /\ HasCmd(sent', "D,END")
            /\ \E i \in DOMAIN logged' : IsDenial(logged'[i], <<"nayax_timeout">>)
            /\ ~vmc_busy' /\ ~awaiting_nayax' /\ pending' = None
            /\ vmc_vend_deadline' = None]_vars

-----------------------------------------------------------------------------
ResultLine(res) == Line("d,STATUS,RESULT", <<res>>, <<>>)

CompConfigured == comp_credit # None

ReadsSuccess ==
    \/ MainLoop(SuccessLine)
    \/ ArmRead(SuccessLine)
    \/ WaitCreditRead(SuccessLine)

\* C6: with the one-shot flag, comp mode is inactive after every step in which the
\* bridge reads a c,VEND,SUCCESS line from the transport and is changed by no other
\* step (so it is active up to the first success line and inactive from it on);
\* without the one-shot flag comp mode stays active.
C6_OneShotCompEndsAtFirstSuccess ==
    [][/\ (CompConfigured /\ comp_oneshot) =>
            /\ ReadsSuccess => ~comp_active'
            /\ ~ReadsSuccess => comp_active' = comp_active
       /\ (CompConfigured /\ ~comp_oneshot) => comp_active']_vars

C8_Scenario(succ) ==
    InMain =>
        \A t \in VendLines :
            (~Top.comp_active /\ Top.nayax_credit_ready /\ PriceOf(t) <= max_credit
             /\ t.b[1] = 1) =>
                LET P == PriceOf(t)
                    K == t.b[2] % 256
                    r1 == Step(t)
                    r2 == MainIteration(Fresh(r1), ResultLine(1))
                    r3 == MainIteration(Fresh(r2), succ)
                IN  /\ HandlerSent(t) = <<<<"D,REQ", fmt_money(P), K>>>>
                    /\ r2.sent = <<<<"C,VEND", fmt_money(P)>>, D_END>>
                    /\ r2.logged = <<>>
                    /\ r3.logged = <<Approved(P, Some(K), FALSE)>>

\* C8 (as amended): the scenario holds with c,VEND,SUCCESS as the success line.
C8_NormalPathScenario == C8_Scenario(SuccessLine)

\* C8 (as stated): the scenario with c,STATUS,VEND,SUCCESS as the success line.
C8_ScenarioWithStatusVendSuccess == C8_Scenario(StatusVendSuccessLine)

C8_Witness ==
    /\ ~CompConfigured /\ pc = "main" /\ ~vmc_busy
    /\ logged = <<Approved(50, Some(7), FALSE)>>

\* C9: a D,REQ is written only while nayax_credit_ready is true; a vend request
\* that finds it false, and whose wait ends without a CREDIT line, is answered with
\* C,STOP alone and logged as exactly one denial "no_nayax_credit_session".
C9_RequestOnlyWhileSessionReady ==
    /\ HasCmd(sent, "D,REQ") => nayax_credit_ready
    /\ InMain =>
        \A t \in Lines : HasCmd(Step(t).sent, "D,REQ") => Step(t).nayax_credit_ready
    /\ pc = "wait_credit" =>
        /\ ~nayax_credit_ready /\ price # None /\ vmc_busy
        /\ \A t \in Lines :
            LET r == WaitLine(AtWait, t)
            IN  HasCmd(r.sent, "D,REQ") => (N_CREDIT_RE(t) /\ r.nayax_credit_ready)
        /\ LET r == AfterWait(AtWait)
           IN  /\ r.sent = <<C_STOP>>
               /\ r.logged = <<Denied(price[1], None, <<"no_nayax_credit_session">>)>>
               /\ r.pc = "main" /\ ~r.vmc_busy

C9_Witness ==
    /\ pc = "main" /\ ~vmc_busy /\ ~nayax_credit_ready
    /\ sent = <<C_STOP>>
    /\ Len(logged) = 1 /\ IsDenial(logged[1], <<"no_nayax_credit_session">>)

\* C10: a RESULT line and an ERR line both end the outstanding request, and D,END
\* is the last command written for either.  RESULT with code 1 gives C,VEND then
\* D,END; any other code, or an ERR line, gives C,STOP then D,END, exactly one
\* denial log that carries the code, and no pending vend (nothing awaited, nothing
\* pending, VMC not busy, no vend deadline).
C10_ResultAndErrAreTerminal ==
    InMain =>
        \A t \in Lines :
            ((N_RESULT_RE(t) \/ N_ERR_RE(t)) /\ Top.awaiting_nayax /\ Top.pending # None) =>
                LET r == Step(t)
                    h == HandlerSent(t)
                    p == Top.pending
                IN  /\ ~r.awaiting_nayax /\ r.pending = None
                    /\ r.pc = "main"
                    /\ IF t = ResultLine(1)
                       THEN h = <<C_VEND(p[1]), D_END>> /\ HandlerLogged(t) = <<>>
                       ELSE /\ h = <<C_STOP, D_END>>
                            /\ HandlerLogged(t)
                                 = <<Denied(p[1], Some(p[3]),
                                            <<IF N_ERR_RE(t) THEN "nayax_err"
                                                             ELSE "nayax_denied_res",
                                              t.a[1]>>)>>
                            /\ ~r.vmc_busy /\ r.vmc_vend_deadline = None

C10_Witness ==
    /\ pc = "main" /\ ~awaiting_nayax /\ pending = None /\ ~vmc_busy
    /\ sent = <<C_STOP, D_END>>
    /\ Len(logged) = 1 /\ IsDenial(logged[1], <<"nayax_err", -1>>)

-----------------------------------------------------------------------------
IsApproval(e) == e.type = "nayax_payment.approved"

Approvals(seq) == {i \in DOMAIN seq : IsApproval(seq[i])}

\* C11: RESULT with code 1 for the outstanding request writes C,VEND (then D,END) and
\* logs nothing; an approved event is logged only by an iteration that handles
\* c,VEND,SUCCESS with a vend context recorded, it is the only event of that
\* iteration and it reports the recorded context; the handling of a success line
\* leaves no context, so after an approved authorization the first success line is
\* logged once and a second one is not logged.
C11_ApprovalLoggedOnlyOnSuccess ==
    /\ Approvals(logged) # {} => (Len(logged) = 1 /\ current_vend_price = None)
    /\ InMain =>
        LET top == Top
        IN  \A t \in Lines :
            LET r == Step(t)
                hsent == Drop(r.sent, Len(top.sent))
                hlogged == Drop(r.logged, Len(top.logged))
            IN  /\ Approvals(r.logged) # {} =>
                        /\ t = SuccessLine
                        /\ top.current_vend_price # None
                        /\ hlogged = <<Approved(top.current_vend_price[1],
                                                top.current_vend_nayax_prod,
                                                top.current_vend_comp_mode)>>
                /\ t = SuccessLine =>
                        /\ r.current_vend_price = None
                        /\ Len(hlogged) = (IF top.current_vend_price # None THEN 1 ELSE 0)
                /\ (t = ResultLine(1) /\ top.awaiting_nayax /\ top.pending # None) =>
                        LET r2 == MainIteration(Fresh(r), SuccessLine)
                            r3 == MainIteration(Fresh(r2), SuccessLine)
                        IN  /\ hsent = <<C_VEND(top.pending[1]), D_END>>
                            /\ hlogged = <<>>
                            /\ r2.logged = <<Approved(top.pending[1],
                                                      Some(top.pending[3]), FALSE)>>
                            /\ r3.logged = <<>>
    /\ pc = "arm" =>
        /\ \A t \in Lines : Approvals(ArmLine([Cur EXCEPT !.pc = "arm"], t).logged) = {}
        /\ Approvals(ArmNextAttempt([Cur EXCEPT !.pc = "arm"]).logged) = {}
    /\ pc = "wait_credit" =>
        /\ \A t \in Lines : Approvals(WaitLine(AtWait, t).logged) = {}
        /\ Approvals(AfterWait(AtWait).logged) = {}

C11_Witness ==
    /\ pc = "main" /\ vmc_busy /\ ~awaiting_nayax
    /\ Len(sent) = 2 /\ sent[1][1] = "C,VEND" /\ sent[2] = D_END
    /\ logged = <<>> /\ current_vend_price # None /\ ~current_vend_comp_mode

-----------------------------------------------------------------------------
AtArm == [Cur EXCEPT !.pc = "arm"]

\* a step has taken up or resolved the vend request it read
VendTakenUp(r) == r.vmc_busy \/ HasCmd(r.sent, "C,STOP") \/ HasCmd(r.sent, "C,VEND")

\* C12: no C,START is written while a vend is in progress.  An iteration that finds
\* the VMC busy writes no C,START; an iteration that reads a vend request writes no
\* C,START and leaves the VMC busy or answers the request; the session-ready wait
\* writes no C,START; and a vend request read inside arm_credit_safe is taken up, so
\* that the attempt that follows does not write C,START on top of it.
C12_NoArmWhileVending ==
    /\ InMain =>
        \A t \in Lines :
            /\ Top.vmc_busy => ~HasCmd(Step(t).sent, "C,START")
            /\ VMC_VEND_RE(t) =>
                    /\ ~HasCmd(Step(t).sent, "C,START")
                    /\ VendTakenUp(Step(t))
    /\ pc = "wait_credit" =>
        /\ vmc_busy
        /\ \A t \in Lines : ~HasCmd(WaitLine(AtWait, t).sent, "C,START")
        /\ ~HasCmd(AfterWait(AtWait).sent, "C,START")
    /\ pc = "arm" =>
        \A t \in VendLines :
            LET r1 == ArmLine(AtArm, t)
            IN  /\ VendTakenUp(r1)
                /\ ~HasCmd(ArmNextAttempt(Fresh(r1)).sent, "C,START")

-----------------------------------------------------------------------------
\* One invocation of arm_credit_safe, step by step: arm_attempt counts the C,START
\* commands written so far and never exceeds 12; every step writes one C,START when
\* it starts an attempt and none otherwise; a c,ERR,"START ..." line ends the attempt
\* as the end of its window does; the failure comes only from the 12th attempt,
\* returns to the main loop with the credit flag false, and the idle iteration that
\* follows starts a new invocation.
ArmInvocationBounded ==
    /\ arm_attempt \in 0..ArmAttempts
    /\ (pc = "arm") = (arm_attempt >= 1)
    /\ pc = "arm" =>
        /\ ~vmc_busy
        /\ \A t \in Lines :
            LET r == ArmLine(AtArm, t)
            IN  /\ r.arm_attempt <= ArmAttempts
                /\ CountCmd(r.sent, "C,START")
                     = (IF r.pc = "arm" THEN r.arm_attempt - arm_attempt ELSE 0)
                /\ VMC_START_ERR_RE(t) => r = ArmNextAttempt(AtArm)
        /\ LET e == ArmNextAttempt(AtArm)
           IN  IF arm_attempt < ArmAttempts
               THEN /\ e.pc = "arm" /\ e.arm_attempt = arm_attempt + 1
                    /\ e.sent = <<C_START(current_arm_amount(AtArm))>>
               ELSE /\ e.pc = "main" /\ e.arm_attempt = 0
                    /\ e.sent = <<>>
                    /\ ~e.vmc_has_credit
                    /\ LET n == MainIteration(Fresh(e), NoLine)
                       IN  /\ n.pc = "arm" /\ n.arm_attempt = 1
                           /\ CountCmd(n.sent, "C,START") = 1
    /\ InMain =>
        \A t \in Lines :
            LET r == Step(t)
            IN  CountCmd(r.sent, "C,START") = (IF r.pc = "arm" THEN 1 ELSE 0)
                /\ (r.pc = "arm" => r.arm_attempt = 1)

\* C13: an invocation of arm_credit_safe writes at most 12 C,START commands and
\* always ends; failure comes after exactly 12 attempts, is not fatal, leaves the
\* VMC without credit, and arming is tried again on the next idle iteration.
C13_ArmingTerminatesWithin12 ==
    /\ []ArmInvocationBounded
    /\ (pc = "arm") ~> (pc # "arm")

C13_Witness ==
    /\ pc = "arm" /\ arm_attempt = ArmAttempts
    /\ sent = <<C_START(current_arm_amount(Cur))>>

-----------------------------------------------------------------------------
\* C14: arm_credit_safe succeeds (returns to the main loop with the credit flag
\* set) only on a c,STATUS,IDLE,<credit> line whose credit is the amount written in
\* its C,START.
C14_ArmSuccessNeedsArmedAmount ==
    pc = "arm" =>
        \A t \in Lines :
            LET r == ArmLine(AtArm, t)
            IN  (r.pc = "main" /\ r.vmc_has_credit) =>
                    /\ VMC_IDLE_CREDIT_RE(t)
                    /\ parse_money(t.a) = current_arm_amount(AtArm)

-----------------------------------------------------------------------------
BeforeLoop == InitStages \cup {"start", "exited"}

VendingCmds == {"C,START", "C,VEND", "D,REQ"}

NoVendingCmd(seq) == \A i \in DOMAIN seq : seq[i][1] \notin VendingCmds

\* the stage that follows a stage, and what is written between the two waits
StartupSequel(stage, next, written) ==
    \/ /\ stage = "init_vmc" /\ next = "init_off"
       /\ written = <<<<"D,STOP">>, <<"D,0">>>>
    \/ /\ stage = "init_off" /\ next = "init_init"
       /\ written = <<<<"D,2">>>>
    \/ /\ stage = "init_init" /\ next = "init_idle"
       /\ written = <<<<"D,READER,1">>>>
    \/ /\ stage = "init_idle" /\ next = "main"
       /\ written = <<>>

\* the status a stage waits for
StartupAwaits(stage) ==
    IF stage = "init_vmc" THEN "c,STATUS,ENABLED"
    ELSE IF stage = "init_off" THEN "d,STATUS,OFF"
    ELSE IF stage = "init_init" THEN "d,STATUS,INIT"
    ELSE "d,STATUS,IDLE"

\* C15: startup is ordered and fatal on failure.  The first step writes the cleanup
\* and X,0, C,0, C,1 and waits for ENABLED; then D,STOP, D,0 and the wait for OFF;
\* then D,2 and the wait for INIT; then D,READER,1 and the wait for IDLE; only the
\* awaited status moves a stage on, and only the last one enters the main loop.  A
\* wait that times out ends the program: nothing more is written, the loop is never
\* entered.  Before the loop (and after a failed startup) no C,START, C,VEND or
\* D,REQ is written.
C15_StartupOrderedAndFatal ==
    /\ [](pc \in BeforeLoop => NoVendingCmd(sent))
    /\ [][/\ pc # "exited"
          /\ pc = "start" =>
                \/ pc' = pc /\ sent' = sent
                \/ /\ pc' = "init_vmc"
                   /\ sent' = <<<<"C,STOP">>, <<"D,END">>, <<"D,STOP">>,
                                <<"X,0">>, <<"C,0">>, <<"C,1">>>>
          /\ pc \in InitStages =>
                \/ pc' = pc /\ sent' \in {<<>>, sent}
                \/ pc' = "exited" /\ sent' = <<>>
                \/ /\ StartupSequel(pc, pc', sent')
                   /\ \E t \in Lines : t.k = StartupAwaits(pc) /\ WaitForRead(t)
          /\ pc' = "main" => pc \in {"init_idle", "main", "arm", "wait_credit"}
          /\ pc' \in BeforeLoop => pc \in BeforeLoop]_vars

C15_Witness ==
    /\ pc = "exited" /\ sent = <<>> /\ logged = <<>>
    /\ ~vmc_has_credit /\ ~vmc_busy /\ ~awaiting_nayax /\ arm_attempt = 0

-----------------------------------------------------------------------------
Ended == {"done", "exited"}

\* C16: every step by which the program ends after the port was opened writes the
\* cleanup commands C,STOP, D,END, D,STOP while the port is still open.
C16_CleanupWrittenOnEveryExit ==
    [][(pc \notin Ended /\ pc' \in Ended) =>
            sent' = <<<<"C,STOP">>, <<"D,END">>, <<"D,STOP">>>>]_vars

-----------------------------------------------------------------------------
\* C17: a stop signal only sets the stop flag; once the flag is set the loop runs
\* no further iteration, it ends after finitely many steps wherever the signal found
\* it (main loop, arm_credit_safe, session-ready wait, vend in progress), the step
\* that ends it writes exactly C,STOP, D,END, D,STOP, and nothing happens afterwards.
C17_StopSignalEndsLoopWithCleanup ==
    /\ [][/\ stop_flag' # stop_flag =>
                /\ stop_flag'
                /\ UNCHANGED <<pc, cfgvars, loopvars, sent, logged>>
          /\ (stop_flag /\ pc = "main") =>
                \/ UNCHANGED <<pc, sent, logged>>
                \/ /\ pc' = "done"
                   /\ sent' = <<<<"C,STOP">>, <<"D,END">>, <<"D,STOP">>>>
          /\ pc' = "done" => (pc = "main" /\ stop_flag)
          /\ pc # "done"]_vars
    /\ (stop_flag /\ pc \in Running) ~> (pc = "done")

C17_Witness ==
    /\ pc = "done" /\ stop_flag /\ vmc_busy /\ awaiting_nayax
    /\ sent = <<C_STOP, D_END, D_STOP>>

-----------------------------------------------------------------------------
\* a step's result without what depends on the log call only by being printed
Proto(r) == [r EXCEPT !.api = "http_ok", !.printed = <<>>, !.at_write = <<>>]

\* C18: whatever api_post does in a step (success status, error status, exception),
\* the step writes the same commands, makes the same log calls (each once: a failed
\* call is not repeated) and leaves the same values in every variable, and it never
\* leaves the loop.
C18_LogOutcomeNeverInfluencesProtocol ==
    /\ InMain =>
        \A t \in Lines :
            LET b == Step(t)
                base == Proto(b)
            IN  /\ b.pc \in Running
                /\ Len(b.logged) <= 1
                /\ b.logged # <<>> =>
                    \A o \in ApiOutcomes :
                        LET r == MainIteration(CurApi(o), t)
                        IN  /\ Proto(r) = base
                            /\ r.pc \in Running
                            /\ Len(r.logged) <= 1
                            /\ Len(r.printed) = Len(r.logged)
    /\ pc = "wait_credit" =>
        /\ LET base == Proto(AfterWait(AtWait))
           IN  \A o \in ApiOutcomes :
                   LET r == AfterWait([CurApi(o) EXCEPT !.pc = "wait_credit"])
                   IN  /\ Proto(r) = base
                       /\ r.pc \in Running
                       /\ Len(r.printed) = Len(r.logged)
        /\ \A t \in Lines :
               LET base == Proto(WaitLine(AtWait, t))
               IN  \A o \in ApiOutcomes :
                       LET r == WaitLine([CurApi(o) EXCEPT !.pc = "wait_credit"], t)
                       IN  /\ Proto(r) = base
                           /\ r.pc \in Running

C18_Witness ==
    /\ pc = "main" /\ ~awaiting_nayax /\ ~vmc_busy
    /\ Len(logged) = 1 /\ IsDenial(logged[1], <<"nayax_denied_res", 0>>)
    /\ sent = <<C_STOP, D_END>>

-----------------------------------------------------------------------------
\* the in-memory vend record
VendRecord(r) ==
    <<r.vmc_busy, r.pending, r.awaiting_nayax, r.nayax_deadline, r.vmc_vend_deadline,
      r.vmc_has_credit>>

VendCmds == {"D,REQ", "C,VEND", "C,STOP", "D,END"}

\* the state in which the last command of a step was written
AtLastWrite(r) == r.at_write[Len(r.at_write)]

\* C19: in every branch the vend record (busy flag, pending record, awaiting flag,
\* deadlines, credit flag) is updated before the command is written: when the last
\* D,REQ, C,VEND, C,STOP or D,END of a step is written the record already has the
\* values the step leaves, so that a write that raises leaves the state transitioned.
C19_StateUpdatedBeforeWrite ==
    /\ InMain =>
        \A t \in Lines :
            LET r == MainIteration(CurWatched, t)
            IN  (r.sent # <<>> /\ r.sent[Len(r.sent)][1] \in VendCmds) =>
                    VendRecord(AtLastWrite(r)) = VendRecord(r)
    /\ pc = "wait_credit" =>
        LET r == AfterWait([CurWatched EXCEPT !.pc = "wait_credit"])
        IN  VendRecord(AtLastWrite(r)) = VendRecord(r)

-----------------------------------------------------------------------------
\* C20: a command write that fails does not end the control loop: the attempt is
\* given up after its retries and the loop goes on (the vend it leaves stalled is
\* then the watchdog's to clean up).
C20_FailedWriteIsNotFatal ==
    [][WriteFault => pc' \in Running]_vars

-----------------------------------------------------------------------------
\* lines 218, 220, 505-508: main returns None after a failed startup (return) and
\* after the loop has ended (it falls off its end); the script then ends, and the
\* interpreter exits with status 0.  An exception that leaves main is unhandled and
\* gives status 1.
exit_status(p) == IF p = "crashed" THEN 1 ELSE 0

\* C21: the exit status of a startup fault (a device did not reach its ready status
\* during initialisation) differs from the exit status of a clean shutdown (stop
\* signal, then cleanup).
C21_ExitStatusTellsStartupFault ==
    pc = "exited" => exit_status(pc) # exit_status("done")

-----------------------------------------------------------------------------
\* C22: the iteration that handles c,VEND,SUCCESS leaves no pending vend: the VMC is
\* not busy, the credit flag is false, the vend-completion deadline is disarmed, the
\* logging context is empty, and no authorization request is recorded as outstanding
\* (also when the line arrives while a request is awaiting its result).
C22_SuccessLeavesNoPendingVend ==
    InMain =>
        LET r == Step(SuccessLine)
        IN  /\ ~r.vmc_busy
            /\ ~r.vmc_has_credit
            /\ r.vmc_vend_deadline = None
            /\ r.current_vend_price = None
            /\ r.current_vend_nayax_prod = None
            /\ ~r.current_vend_comp_mode
            /\ ~r.awaiting_nayax
            /\ r.pending = None

-----------------------------------------------------------------------------
(* The product number of a vend request, from the VMC's text to the reader's byte *)

\* product numbers the VMC reports, below and above one byte
ProdCodes == {0, 7, 255, 256, 263, 511, 65535}

ProdVendLines ==
    {Line("c,STATUS,VEND", p, <<1, k>>) : p \in PriceTexts, k \in ProdCodes}
    \cup {Line("c,STATUS,VEND", <<0, 25, 2>>, <<0, 0>>)}

\* The main loop in normal mode with the reader's session ready and no credit on the
\* VMC (the state in which an invocation of arm_credit_safe that failed leaves it).
ProdInit ==
    /\ pc = "main"
    /\ stop_flag = FALSE
    /\ comp_credit = None
    /\ comp_oneshot = FALSE
    /\ nayax_timeout \in 1..MaxTimeout
    /\ vmc_vend_timeout \in 1..MaxTimeout
    /\ comp_active = FALSE
    /\ vmc_has_credit = FALSE
    /\ vmc_credit_ts = None
    /\ vmc_busy = FALSE
    /\ vmc_vend_deadline = None
    /\ awaiting_nayax = FALSE
    /\ pending = None
    /\ nayax_deadline = -1
    /\ nayax_credit_ready = TRUE
    /\ current_vend_price = None
    /\ current_vend_nayax_prod = None
    /\ current_vend_comp_mode = FALSE
    /\ price = None
    /\ vmc_prod_raw = None
    /\ wait_until = 0
    /\ arm_attempt = 0
    /\ sent = <<>>
    /\ logged = <<>>

\* vend requests with any of the product numbers, the reader's answers, the VMC's
\* success line, and time
ProdNext ==
    \/ \E t \in ProdVendLines : MainLoop(t)
    \/ \E t \in {Line("d,STATUS,RESULT", <<1>>, <<>>), Line("d,STATUS,RESULT", <<0>>, <<>>),
                 SuccessLine} : MainLoop(t)
    \/ Tick

ProdSpec == ProdInit /\ [][ProdNext]_vars

\* b is the byte that k reduces to modulo 256
IsByteOf(b, k) == b \in 0..255 /\ \E q \in 0..(k \div 256) : k = 256 * q + b

\* C23: the product code of every D,REQ written is a byte (0..255), it is the code
\* recorded in the pending vend and in the logging context, and for every product
\* number the VMC reports (also above 255) it is that number reduced modulo 256; a
\* vend request read while the session is ready and the price within the cap is
\* answered with exactly that D,REQ.
C23_RequestCarriesProductByte ==
    /\ \A i \in DOMAIN sent :
            sent[i][1] = "D,REQ" =>
                /\ sent[i][3] \in 0..255
                /\ pending # None /\ pending[3] = sent[i][3]
                /\ current_vend_nayax_prod = Some(sent[i][3])
                /\ pending[2][1] = 1 => IsByteOf(sent[i][3], pending[2][2])
    /\ InMain =>
        \A t \in ProdVendLines :
            (~Top.comp_active /\ Top.nayax_credit_ready /\ PriceOf(t) <= max_credit) =>
                LET r == Step(t)
                    h == HandlerSent(t)
                IN  /\ Len(h) = 1 /\ h[1][1] = "D,REQ" /\ h[1][2] = fmt_money(PriceOf(t))
                    /\ h[1][3] \in 0..255
                    /\ t.b[1] = 1 => IsByteOf(h[1][3], t.b[2])
                    /\ r.pending = <<PriceOf(t), t.b, h[1][3]>>
                    /\ r.current_vend_nayax_prod = Some(h[1][3])

C23_Witness ==
    /\ pc = "main" /\ awaiting_nayax
    /\ sent = <<D_REQ(25, 255)>>
    /\ pending = <<25, <<1, 65535>>, 255>>

-----------------------------------------------------------------------------
VmcStatusLine(t) == VMC_IDLE_CREDIT_RE(t) \/ VMC_IDLE_RE(t) \/ VMC_ENABLED_RE(t)

\* C24: in the main loop, c,STATUS,IDLE,<credit> sets the credit flag and makes its
\* timestamp the current time; c,STATUS,IDLE clears the credit flag; c,STATUS,ENABLED
\* clears it when the VMC is not busy and leaves it as it is when the VMC is busy;
\* none of the three changes the busy flag, the pending vend, the awaiting flag, the
\* two deadlines or the session-ready flag that the iteration's watchdogs left.
C24_VmcStatusSetsCreditFlagOnly ==
    InMain =>
        LET top == Top
        IN  \A t \in Lines :
                VmcStatusLine(t) =>
                    LET r == Step(t)
                    IN  /\ VMC_IDLE_CREDIT_RE(t) =>
                                r.vmc_has_credit /\ r.vmc_credit_ts = Some(0)
                        /\ VMC_IDLE_RE(t) => ~r.vmc_has_credit
                        /\ VMC_ENABLED_RE(t) =>
                                r.vmc_has_credit = (top.vmc_busy /\ top.vmc_has_credit)
                        /\ r.vmc_busy = top.vmc_busy
                        /\ r.pending = top.pending
                        /\ r.awaiting_nayax = top.awaiting_nayax
                        /\ r.nayax_deadline = top.nayax_deadline
                        /\ r.vmc_vend_deadline = top.vmc_vend_deadline
                        /\ r.nayax_credit_ready = top.nayax_credit_ready

\* a vend has been in progress for a tick and the credit timestamp is of this tick:
\* c,STATUS,IDLE,<credit> was read during the vend
C24_Witness ==
    /\ pc = "main" /\ vmc_busy /\ vmc_has_credit /\ vmc_credit_ts = Some(0)
    /\ awaiting_nayax /\ nayax_deadline = nayax_timeout - 1
    /\ vmc_vend_deadline = Some(vmc_vend_timeout - 1)
    /\ sent = <<>>

-----------------------------------------------------------------------------
\* more than the TTL has passed since the last c,STATUS,IDLE,<credit> was seen
StaleCredit == vmc_credit_ts # None /\ vmc_credit_ts[1] > credit_ttl

\* an iteration that finds the credit stale clears the credit flag, whatever it
\* reads, unless it reads a new c,STATUS,IDLE,<credit>
StaleCreditIsCleared ==
    (InMain /\ StaleCredit) =>
        \A t \in Lines : ~VMC_IDLE_CREDIT_RE(t) => ~Step(t).vmc_has_credit

\* C25: once more than the TTL has passed since the last c,STATUS,IDLE,<credit>, the
\* next iteration clears the credit flag (also when it reads no line), and no
\* iteration writes C,VEND while the credit is stale: a vend is approved only after
\* arming has succeeded again.
C25_StaleCreditNotUsed ==
    /\ StaleCreditIsCleared
    /\ (InMain /\ StaleCredit) =>
            \A t \in Lines : ~HasCmd(Step(t).sent, "C,VEND")

-----------------------------------------------------------------------------
RequestOutstanding(s) == s.awaiting_nayax /\ s.pending # None

\* C26: while comp mode is inactive, an iteration writes C,VEND only when it reads
\* RESULT with code 1 while a request is outstanding, and the C,VEND carries the
\* price of the pending record; the pending record is the one of the most recent
\* D,REQ (every D,REQ is written with the price and product of the record the same
\* step leaves, and a step that writes no D,REQ keeps the record or clears it); a
\* RESULT or ERR line read while no request is outstanding (after the iteration's
\* watchdogs) makes the handler write no C,VEND and no C,STOP and log nothing.
C26_NoUnpaidVendOnNormalPath ==
    /\ InMain =>
        LET top == Top
        IN  /\ top.pending \in {pending, None}
            /\ \A t \in Lines :
                LET r == Step(t)
                    h == Drop(r.sent, Len(top.sent))
                    hl == Drop(r.logged, Len(top.logged))
                IN  /\ (~top.comp_active /\ HasCmd(r.sent, "C,VEND")) =>
                            /\ t = ResultLine(1)
                            /\ RequestOutstanding(top)
                            /\ h = <<C_VEND(top.pending[1]), D_END>>
                    /\ ((N_RESULT_RE(t) \/ N_ERR_RE(t)) /\ ~RequestOutstanding(top)) =>
                            /\ ~HasCmd(h, "C,VEND") /\ ~HasCmd(h, "C,STOP")
                            /\ hl = <<>>
                    /\ IF HasCmd(h, "D,REQ")
                       THEN r.pending # None
                            /\ h = <<D_REQ(r.pending[1], r.pending[3])>>
                       ELSE r.pending \in {top.pending, None}
    /\ pc = "wait_credit" =>
        /\ ~comp_active
        /\ \A t \in Lines :
            LET r == WaitLine(AtWait, t)
            IN  /\ ~HasCmd(r.sent, "C,VEND")
                /\ IF HasCmd(r.sent, "D,REQ")
                   THEN r.sent = <<D_REQ(r.pending[1], r.pending[3])>>
                   ELSE r.pending = pending
        /\ ~HasCmd(AfterWait(AtWait).sent, "C,VEND")
        /\ AfterWait(AtWait).pending = pending
    /\ pc = "arm" =>
        /\ \A t \in Lines :
            LET r == ArmLine(AtArm, t)
            IN  r.pending = pending /\ ~HasCmd(r.sent, "C,VEND") /\ ~HasCmd(r.sent, "D,REQ")
        /\ ArmNextAttempt(AtArm).pending = pending

\* the one-shot comp has been consumed, and a vend above the comp amount has just
\* been approved by the reader
C26_Witness ==
    /\ CompConfigured /\ comp_oneshot /\ ~comp_active
    /\ pc = "main" /\ vmc_busy /\ ~awaiting_nayax
    /\ sent = <<C_VEND(50), D_END>>

-----------------------------------------------------------------------------
\* the step that read vend request t has answered it (seq is what it wrote for the
\* line) or keeps it on record, with the VMC busy, to be answered later
VendAnsweredOrKept(r, seq, t) ==
    \/ CountCmd(seq, "C,VEND") + CountCmd(seq, "C,STOP") = 1
    \/ /\ r.vmc_busy
       /\ CountCmd(seq, "C,VEND") + CountCmd(seq, "C,STOP") = 0
       /\ \/ r.pc = "wait_credit" /\ r.price = Some(PriceOf(t)) /\ r.vmc_prod_raw = t.b
          \/ /\ r.awaiting_nayax /\ r.pending # None
             /\ r.pending[1] = PriceOf(t) /\ r.pending[2] = t.b

\* a vend request read by the main loop is answered or kept
MainLoopTakesUpVendRequest ==
    InMain =>
        \A t \in VendLines :
            VendAnsweredOrKept(Step(t), Drop(Step(t).sent, Len(Top.sent)), t)

\* C27: no vend request read from the transport is dropped: the step that reads it,
\* in the main loop, inside arm_credit_safe or inside the session-ready wait, either
\* answers it with one C,VEND or C,STOP or keeps it on record with the VMC busy, so
\* that it is answered later.
C27_NoVendRequestDropped ==
    /\ MainLoopTakesUpVendRequest
    /\ pc = "arm" =>
        \A t \in VendLines :
            VendAnsweredOrKept(ArmLine(AtArm, t), ArmLine(AtArm, t).sent, t)
    /\ pc = "wait_credit" =>
        \A t \in VendLines :
            VendAnsweredOrKept(WaitLine(AtWait, t), WaitLine(AtWait, t).sent, t)

-----------------------------------------------------------------------------
\* The main loop iterates for as long as it is not stopped: every readline returns
\* within the port's read timeout (lines 192, 257), with a line or without one; the
\* clock advances; and both sub-loops are bounded by the clock (lines 135, 387).
IterateSpec ==
    /\ Init /\ [][Next]_vars
    /\ WF_vars(Tick)
    /\ WF_vars(\E t \in Lines : MainLoop(t))
    /\ WF_vars(ArmWindowEnd)
    /\ WF_vars(WaitCreditExpire)

\* at the top of an iteration a busy VMC has its vend-completion deadline armed
BusyHasDeadline == (pc = "main" /\ vmc_busy) => vmc_vend_deadline # None

\* C28: at the top of every main-loop iteration a busy VMC has a vend-completion
\* deadline armed, and whatever lines arrive (or none) the busy flag becomes false
\* again (unless the loop is stopped first).
C28_NeverBusyForever ==
    /\ []BusyHasDeadline
    /\ vmc_busy ~> (~vmc_busy \/ stop_flag)

-----------------------------------------------------------------------------
\* C29: an approval is logged only for a vend the bridge has approved.  While an
\* authorization request is outstanding (D,REQ written, no RESULT yet, so no C,VEND
\* yet) a c,VEND,SUCCESS line is not logged as an approval; in particular the
\* success line that directly follows the D,REQ of a vend request is not.
C29_ApprovalOnlyAfterApprove ==
    InMain =>
        /\ Top.awaiting_nayax => Approvals(Step(SuccessLine).logged) = {}
        /\ \A t \in VendLines :
                LET r1 == Step(t)
                IN  HasCmd(r1.sent, "D,REQ") =>
                        Approvals(MainIteration(Fresh(r1), SuccessLine).logged) = {}

-----------------------------------------------------------------------------
\* what a step that writes C,START must have found and written: one C,START, with
\* the comp amount in comp mode and the configured maximum otherwise, the VMC not
\* busy, the credit flag false, and in normal mode the session-ready flag true
ArmedAsAllowed(r) ==
    HasCmd(r.sent, "C,START") =>
        /\ CountCmd(r.sent, "C,START") = 1
        /\ r.sent[Len(r.sent)]
             = C_START(IF r.comp_active THEN comp_credit[1] ELSE max_credit)
        /\ ~r.vmc_busy /\ ~r.vmc_has_credit
        /\ r.comp_active \/ r.nayax_credit_ready

\* C30: every C,START is written with the VMC not busy and the credit flag false,
\* in normal mode only with the session-ready flag true (never by the iteration that
\* reads d,STATUS,IDLE), in comp mode whatever the session-ready flag is; its amount
\* is the comp amount while comp mode is active and the configured maximum
\* otherwise, also after a one-shot comp has been consumed.  An idle iteration that
\* finds these conditions does write it.
C30_ArmingGatedOnSession ==
    /\ InMain =>
        LET top == Top
        IN  /\ \A t \in Lines :
                LET r == Step(t)
                IN  /\ ArmedAsAllowed(r)
                    /\ (HasCmd(r.sent, "C,START") /\ ~r.comp_active) => ~N_IDLE_RE(t)
            /\ (~top.vmc_busy /\ ~top.vmc_has_credit) =>
                    HasCmd(Step(NoLine).sent, "C,START")
                        = (top.comp_active \/ top.nayax_credit_ready)
    /\ pc = "arm" =>
        /\ ~vmc_busy /\ ~vmc_has_credit
        /\ comp_active \/ nayax_credit_ready
        /\ ArmedAsAllowed(ArmNextAttempt(AtArm))
        /\ \A t \in Lines : ArmedAsAllowed(ArmLine(AtArm, t))
    /\ pc = "wait_credit" =>
        /\ ~HasCmd(AfterWait(AtWait).sent, "C,START")
        /\ \A t \in Lines : ~HasCmd(WaitLine(AtWait, t).sent, "C,START")

\* the one-shot comp has been consumed and the VMC is armed with the maximum
C30_Witness ==
    /\ CompConfigured /\ comp_oneshot /\ ~comp_active
    /\ pc = "arm" /\ arm_attempt = 2 /\ nayax_credit_ready
    /\ sent = <<C_START(max_credit)>>

====
